---- MODULE Spec2Model ----
(***************************************************************************)
(* Model of the wikitext cleaner and dump pipeline of ebook-reader-dict:    *)
(*   scripts/utils.py  capitalize, handle_sport, handle_unit, clean,       *)
(*                     transform                                           *)
(*   scripts/get.py    find_definitions, find_section_definitions,         *)
(*                     parse_word, process, xml_parse_element, main        *)
(*                                                                         *)
(* A Python str is a sequence of characters; a character is a one-letter   *)
(* TLA+ string, except U+2026 (horizontal ellipsis), written "U2026".      *)
(* An exception that leaves a function is the value of that function here: *)
(* IndexError is a sequence no str can equal.                              *)
(***************************************************************************)
EXTENDS Integers, Sequences, FiniteSets, TLC

VARIABLES
    pc,       \* where the running function is
    input,    \* the argument of the call: contents, fragment, sections, ...
    text,     \* clean: the local variable text
    todo,     \* clean: the matches of line 226 not yet iterated over
    arg,      \* clean: the contents passed to the latest call of transform
    result,   \* the value returned, or the exception raised
    round,    \* how many times clean was applied to reach input
    prev,     \* what the previous application of clean returned
    queue,    \* what a loop of get.py has still to iterate over
    definitions,  \* find_definitions: the definitions chained so far
    words,    \* process: the local variable words
    snapshot, \* main: the local variable snapshot
    file,     \* main: the local variable file
    disk,     \* the files of C.SNAPSHOT
    fetches,  \* main: the calls of fetch_pages so far: date and exception
    saved     \* what save wrote to C.SNAPSHOT_FILE, <<>> when it was not called

cleanVars == <<text, todo, arg, round, prev>>

getVars == <<queue, definitions, words>>

mainVars == <<snapshot, file, disk, fetches, saved>>

vars == <<pc, input, result, cleanVars, getVars, mainVars>>

\* the variables of clean, when clean is not what runs
IdleClean ==
    /\ text = <<>>
    /\ todo = {}
    /\ arg = <<>>
    /\ round = 1
    /\ prev = <<>>

\* the variables of find_definitions and process, when they do not run
IdleGet ==
    /\ queue = <<>>
    /\ definitions = <<>>
    /\ words = <<>>

\* the variables of main, when main does not run
IdleMain ==
    /\ snapshot = 0
    /\ file = <<>>
    /\ disk = <<>>
    /\ fetches = <<>>
    /\ saved = <<>>

(***************************************************************************)
(* Python str primitives                                                   *)
(***************************************************************************)

\* the exception raised by text[0] on an empty str
IndexError == <<"IndexError">>

\* characters str.strip() and \s treat as whitespace (of those the model uses)
Whitespace == {" "}

\* s[i:] in Python terms, i counted from 1 here
Tail_(s, i) == IF i > Len(s) THEN <<>> ELSE SubSeq(s, i, Len(s))

\* does p occur in s at position i
At(s, p, i) == /\ i >= 1
               /\ i + Len(p) - 1 <= Len(s)
               /\ SubSeq(s, i, i + Len(p) - 1) = p

\* str.find from position i: the first position >= i where p occurs, 0 if none
RECURSIVE Find(_, _, _)
Find(s, p, i) ==
    IF i + Len(p) - 1 > Len(s) THEN 0
    ELSE IF At(s, p, i) THEN i
    ELSE Find(s, p, i + 1)

\* p in s
Contains(s, p) == Find(s, p, 1) # 0

\* str.replace(old, new): every non-overlapping occurrence, leftmost first
RECURSIVE Replace(_, _, _)
Replace(s, old, new) ==
    LET k == Find(s, old, 1) IN
    IF k = 0 THEN s
    ELSE SubSeq(s, 1, k - 1) \o new \o Replace(Tail_(s, k + Len(old)), old, new)

\* str.split(sep) for a one-character separator
RECURSIVE Split(_, _)
Split(s, sep) ==
    LET k == Find(s, <<sep>>, 1) IN
    IF k = 0 THEN <<s>>
    ELSE <<SubSeq(s, 1, k - 1)>> \o Split(Tail_(s, k + 1), sep)

\* str.lstrip()
RECURSIVE LStrip(_)
LStrip(s) == IF s # <<>> /\ s[1] \in Whitespace THEN LStrip(Tail(s)) ELSE s

\* str.rstrip()
RECURSIVE RStrip(_)
RStrip(s) ==
    IF s # <<>> /\ s[Len(s)] \in Whitespace
    THEN RStrip(SubSeq(s, 1, Len(s) - 1)) ELSE s

\* str.strip()
Strip(s) == LStrip(RStrip(s))

\* str.capitalize() of one character
Upper(c) ==
    CASE c = "a" -> "A"
      [] c = "b" -> "B"
      [] c = "c" -> "C"
      [] c = "g" -> "G"
      [] c = "m" -> "M"
      [] c = "o" -> "O"
      [] c = "s" -> "S"
      [] c = "t" -> "T"
      [] c = "u" -> "U"
      [] c = "w" -> "W"
      [] OTHER -> c

(***************************************************************************)
(* utils.py                                                                *)
(***************************************************************************)

\* capitalize(text): f"{text[0].capitalize()}{text[1:]}"
capitalize(s) ==
    IF s = <<>> THEN IndexError
    ELSE <<Upper(s[1])>> \o Tail(s)

\* f"<i>({label})</i>", an exception in the label leaving the f-string
Italic(label) ==
    IF label = IndexError THEN IndexError
    ELSE <<"<", "i", ">", "(">> \o label \o <<")", "<", "/", "i", ">">>

\* handle_sport(tpl, parts)
handle_sport(tpl, parts) ==
    LET cap == capitalize(tpl) IN
    IF cap = IndexError THEN IndexError
    ELSE <<"<", "i", ">", "(">> \o cap
         \o (IF Len(parts) >= 3 THEN <<" ">> \o parts[3] ELSE <<>>)
         \o <<")", "<", "/", "i", ">">>

\* "".join(parts)
RECURSIVE Join(_)
Join(parts) == IF parts = <<>> THEN <<>> ELSE Head(parts) \o Join(Tail(parts))

\* handle_unit(parts)
handle_unit(parts) == Join(parts)

(***************************************************************************)
(* The locale rule tables (scripts/lang, configuration of the run).  The   *)
(* names overlap on purpose: "m" is ignored and multi, "w" is the          *)
(* cross-reference name and multi, "s" is multi and italic, "t" is italic  *)
(* and other.                                                              *)
(***************************************************************************)
templates_ignored == {<<"g">>, <<"m">>}

\* name -> the expression evaluated: "sport" is handle_sport(tpl, parts),
\* "unit" is handle_unit(parts[1:])
templates_multi ==
    (<<"m">> :> "sport") @@ (<<"w">> :> "sport") @@ (<<"s">> :> "sport")
    @@ (<<"u">> :> "unit")

templates_italic == (<<"s">> :> <<"L">>) @@ (<<"t">> :> <<"L">>)

templates_other == (<<"t">> :> <<"!">>) @@ (<<"o">> :> <<"!">>)

\* eval(templates_multi[C.LOCALE][tpl])
EvalMulti(tpl, parts) ==
    IF templates_multi[tpl] = "sport" THEN handle_sport(tpl, parts)
    ELSE handle_unit(Tail(parts))

\* parts = [p.strip() for p in parts_raw]
StripAll(parts_raw) == [i \in 1..Len(parts_raw) |-> Strip(parts_raw[i])]

\* transform(word, template); the warning of line 279 changes no state
transform(word, template) ==
    LET parts_raw == Split(template, "|")
        parts     == StripAll(parts_raw)
        tpl       == parts[1]
    IN  IF tpl \in templates_ignored THEN <<>>
        ELSE IF tpl = <<"w">> THEN parts[Len(parts)]
        ELSE IF tpl \in DOMAIN templates_multi THEN EvalMulti(tpl, parts)
        ELSE IF tpl \in DOMAIN templates_italic THEN Italic(templates_italic[tpl])
        ELSE IF tpl \in DOMAIN templates_other THEN templates_other[tpl]
        ELSE IF Len(parts) = 2 THEN Italic(capitalize(tpl))
        ELSE IF Len(parts) > 2 THEN <<>>
        ELSE IF tpl # <<>> THEN Italic(capitalize(tpl)) ELSE <<>>

(***************************************************************************)
(* clean(word, text).  The strings of the model are made of the characters *)
(* { } | ' * . space, letters, and what transform writes (< > ( ) / !).    *)
(* The rewrites of lines 174-188, 194-208 and 214 need one of              *)
(* <ref <br &nbsp; [ = http __ to match and leave such strings as they     *)
(* are; the other rewrites are the operators below.                        *)
(***************************************************************************)

\* one match of '''?([^']+)'''? starting at i: <<first, last>> of group 1 and
\* the end of the match, or <<>> when there is no match at i
BoldMatch(s, i) ==
    IF ~At(s, <<"'", "'">>, i) THEN <<>>
    ELSE LET j == IF At(s, <<"'">>, i + 2) THEN i + 3 ELSE i + 2
             k == Find(s, <<"'">>, j)
         IN  IF j > Len(s) \/ s[j] = "'" THEN <<>>
             ELSE IF k = 0 \/ ~At(s, <<"'", "'">>, k) THEN <<>>
             ELSE <<j, k - 1, IF At(s, <<"'">>, k + 2) THEN k + 2 ELSE k + 1>>

\* line 171: sub(r"'''?([^']+)'''?", "\\1", text), scanning from i
RECURSIVE BoldFrom(_, _)
BoldFrom(s, i) ==
    IF i > Len(s) THEN <<>>
    ELSE LET m == BoldMatch(s, i) IN
         IF m = <<>> THEN <<s[i]>> \o BoldFrom(s, i + 1)
         ELSE SubSeq(s, m[1], m[2]) \o BoldFrom(s, m[3] + 1)

BasicFormatting(s) == BoldFrom(s, 1)

\* the end of the match of {\|[^}]+\|} starting at i, 0 when there is none
TableMatch(s, i) ==
    IF ~At(s, <<"{", "|">>, i) THEN 0
    ELSE LET r == Find(s, <<"}">>, i + 2) IN
         IF r >= i + 4 /\ s[r - 1] = "|" THEN r ELSE 0

\* line 191: sub(r"{\|[^}]+\|}", "", text), scanning from i
RECURSIVE TablesFrom(_, _)
TablesFrom(s, i) ==
    IF i > Len(s) THEN <<>>
    ELSE LET r == TableMatch(s, i) IN
         IF r = 0 THEN <<s[i]>> \o TablesFrom(s, i + 1)
         ELSE TablesFrom(s, r + 1)

Tables(s) == TablesFrom(s, 1)

\* s without its leading run of c
RECURSIVE DropLeading(_, _)
DropLeading(s, c) ==
    IF s # <<>> /\ s[1] = c THEN DropLeading(Tail(s), c) ELSE s

\* line 211: sub(r"^\*+\s?", "", text, flags=re.MULTILINE); the strings of
\* the model have one line
Lists(s) ==
    IF s = <<>> \/ s[1] # "*" THEN s
    ELSE LET t == DropLeading(s, "*") IN
         IF t # <<>> /\ t[1] \in Whitespace THEN Tail(t) ELSE t

\* line 217: text.replace("''", "")
ExtraQuotes(s) == Replace(s, <<"'", "'">>, <<>>)

\* lines 171-217
Markup(s) == ExtraQuotes(Lists(Tables(BasicFormatting(s))))

\* "{{" at the start of text only
HasTemplate_AtStart(s) == At(s, <<"{", "{">>, 1)

\* "{{" in text (line 232)
HasTemplate(s) == Contains(s, <<"{", "{">>)

\* the end of the match of {{[^{}]*}} starting at i, 0 when there is none
InnermostMatch(s, i) ==
    IF ~At(s, <<"{", "{">>, i) THEN 0
    ELSE LET a == Find(s, <<"{">>, i + 2)
             b == Find(s, <<"}">>, i + 2)
         IN  IF b # 0 /\ (a = 0 \/ b < a) /\ At(s, <<"}", "}">>, b)
             THEN b + 1 ELSE 0

\* line 226: set(re.findall(r"({{[^{}]*}})", text))
Innermost(s) ==
    { SubSeq(s, i, InnermostMatch(s, i)) :
        i \in { j \in 1..Len(s) : InnermostMatch(s, j) # 0 } }

\* tpl[2:-2]
Inside(tpl) == SubSeq(tpl, 3, Len(tpl) - 2)

\* line 229: text.replace(tpl, transform(word, tpl[2:-2]))
FirstPassText(word, s, tpl) ==
    LET transformed == transform(word, Inside(tpl)) IN
    IF transformed = IndexError THEN IndexError
    ELSE Replace(s, tpl, transformed)

\* lines 233-245: the contents of the first template of text, up to the first
\* "}}" or to the end of text
Subtext(s) ==
    LET start == Find(s, <<"{", "{">>, 1)
        close == Find(s, <<"}", "}">>, start + 2)
    IN  IF close = 0 THEN Tail_(s, start + 2)
        ELSE SubSeq(s, start + 2, close - 1)

\* lines 233-249: one iteration of the second loop
SecondPassText(word, s) ==
    LET start == Find(s, <<"{", "{">>, 1)
        close == Find(s, <<"}", "}">>, start + 2)
        transformed == transform(word, Subtext(s))
    IN  IF transformed = IndexError THEN IndexError
        ELSE SubSeq(s, 1, start - 1) \o transformed
             \o (IF close = 0 THEN <<>> ELSE Tail_(s, close + 2))

\* sub(r"\s{2}", " ", text): pairs, not runs
RECURSIVE ExtraSpaces_Pairs(_)
ExtraSpaces_Pairs(s) ==
    IF s = <<>> THEN <<>>
    ELSE IF s[1] \in Whitespace /\ Len(s) >= 2 /\ s[2] \in Whitespace
         THEN <<" ">> \o ExtraSpaces_Pairs(Tail(Tail(s)))
    ELSE <<s[1]>> \o ExtraSpaces_Pairs(Tail(s))

\* line 252: sub(r"\s{2,}", " ", text)
RECURSIVE ExtraSpaces(_)
ExtraSpaces(s) ==
    IF s = <<>> THEN <<>>
    ELSE IF s[1] \in Whitespace /\ Len(s) >= 2 /\ s[2] \in Whitespace
         THEN <<" ">> \o ExtraSpaces(LStrip(s))
    ELSE <<s[1]>> \o ExtraSpaces(Tail(s))

\* line 253: sub(r"\s{1,}\.", ".", text)
RECURSIVE SpaceDot(_)
SpaceDot(s) ==
    IF s = <<>> THEN <<>>
    ELSE IF s[1] \in Whitespace /\ LStrip(s) # <<>> /\ LStrip(s)[1] = "."
         THEN SpaceDot(LStrip(s))
    ELSE <<s[1]>> \o SpaceDot(Tail(s))

\* lines 252-255
Spaces(s) == Strip(SpaceDot(ExtraSpaces(s)))

\* lines 232-255 run to the end: what clean returns from text s, or the
\* exception that leaves it
RECURSIVE SecondLoop(_, _)
SecondLoop(word, s) ==
    IF s = IndexError THEN IndexError
    ELSE IF HasTemplate(s) THEN SecondLoop(word, SecondPassText(word, s))
    ELSE Spaces(s)

\* lines 226-255 run to the end from text s with the matches ts still to
\* iterate over: one outcome for every order the set can be iterated in
RECURSIVE FirstLoop(_, _, _)
FirstLoop(word, s, ts) ==
    IF ts = {} THEN {SecondLoop(word, s)}
    ELSE UNION { IF FirstPassText(word, s, tpl) = IndexError THEN {IndexError}
                 ELSE FirstLoop(word, FirstPassText(word, s, tpl), ts \ {tpl})
                 : tpl \in ts }

\* clean(word, text): every value a call can return (or raise), the order of
\* iteration of a set of str being the interpreter's choice
clean(word, s) == FirstLoop(word, Markup(s), Innermost(Markup(s)))

(***************************************************************************)
(* get.py: find_section_definitions, find_definitions                      *)
(***************************************************************************)

\* the characters \w matches, of those the model uses
WordChars == { "a", "b", "c", "g", "i", "m", "o", "s", "t", "u", "w",
               "A", "B", "C", "G", "L", "M", "O", "S", "T", "U", "W" }

\* the positions P, and those reached from one of them by reading tok: tok?
Optional(s, P, tok) == P \cup { p + Len(tok) : p \in { q \in P : At(s, tok, q) } }

\* the first position >= i of s whose character [\w ]+ does not read
RECURSIVE EndOfWords(_, _)
EndOfWords(s, i) ==
    IF i <= Len(s) /\ s[i] \in WordChars \cup {" "} THEN EndOfWords(s, i + 1)
    ELSE i

\* the positions after \([\w ]+\) read from position a
Parenthetical(s, a) ==
    LET c == EndOfWords(s, a + 1) IN
    IF a <= Len(s) /\ s[a] = "(" /\ c >= a + 2 /\ c <= Len(s) /\ s[c] = ")"
    THEN {c + 1} ELSE {}

\* the positions after one (?:<i>)?\([\w ]+\)(?:</i>)?\.? ?\??…? read from i
GroupEnds(s, i) ==
    LET opened == UNION { Parenthetical(s, a) :
                          a \in Optional(s, {i}, <<"<", "i", ">">>) }
        closed == Optional(s, opened, <<"<", "/", "i", ">">>)
        dot    == Optional(s, closed, <<".">>)
        space  == Optional(s, dot, <<" ">>)
        what   == Optional(s, space, <<"?">>)
    IN  Optional(s, what, <<"U2026">>)

\* the positions reached from the start by reading whole groups
RECURSIVE Reach(_, _, _)
Reach(s, frontier, seen) ==
    IF frontier \subseteq seen THEN seen
    ELSE Reach(s, UNION { GroupEnds(s, p) : p \in frontier \ seen },
               seen \cup frontier)

\* pattern.match(d), pattern being the default of line 111:
\* ^((?:<i>)?\([\w ]+\)(?:</i>)?\.? ?\??…?)*$
PatternMatch(d) == (Len(d) + 1) \in Reach(d, {1}, {})

\* line 123: the definitions yielded so far, and d when the pattern lets it by
Yield(defs, d) ==
    IF PatternMatch(d) THEN defs ELSE Append(defs, d)

\* lines 120-122: the items of the first list of a section
SectionItems(section) ==
    IF section.lists # <<>> THEN section.lists[1] ELSE <<>>

\* lines 95-99: the items find_section_definitions cleans, in the order of
\* chain.from_iterable
RECURSIVE ChainItems(_)
ChainItems(sections) ==
    IF sections = <<>> THEN <<>>
    ELSE SectionItems(Head(sections)) \o ChainItems(Tail(sections))

\* RemoveDuplicates that compares with the previous definition only
RECURSIVE RemoveDuplicates_Adjacent(_, _)
RemoveDuplicates_Adjacent(defs, seen) ==
    IF defs = <<>> THEN <<>>
    ELSE IF Head(defs) \in seen
         THEN RemoveDuplicates_Adjacent(Tail(defs), seen)
    ELSE <<Head(defs)>> \o RemoveDuplicates_Adjacent(Tail(defs), {Head(defs)})

\* lines 104-105: [d for d in definitions if not (d in seen or seen.add(d))]
RECURSIVE RemoveDuplicates(_, _)
RemoveDuplicates(defs, seen) ==
    IF defs = <<>> THEN <<>>
    ELSE IF Head(defs) \in seen
         THEN RemoveDuplicates(Tail(defs), seen)
    ELSE <<Head(defs)>>
         \o RemoveDuplicates(Tail(defs), seen \cup {Head(defs)})

\* an exception leaving a function that returns a list of str
Raised == <<IndexError>>

\* lines 95-99, 120-123 run over the items left: every list of definitions
\* they can build, or Raised when clean raises
RECURSIVE ChainFrom(_, _, _)
ChainFrom(word, items, defs) ==
    IF items = <<>> THEN {defs}
    ELSE UNION { IF d = IndexError THEN {Raised}
                 ELSE ChainFrom(word, Tail(items), Yield(defs, d))
                 : d \in clean(word, Strip(Head(items))) }

\* find_definitions(word, sections): every value a call can return
find_definitions(word, sections) ==
    { IF defs = Raised THEN Raised
      ELSE IF defs = <<>> THEN <<>>
      ELSE RemoveDuplicates(defs, {})
      : defs \in ChainFrom(word, ChainItems(sections), <<>>) }

(***************************************************************************)
(* get.py: find_sections, find_pronunciation, find_genre, parse_word,      *)
(* xml_parse_element.  The code of a page is what wikitextparser and the   *)
(* patterns of the locale read from it: its top-level sections, and the    *)
(* first group C.PRONUNCIATION and C.GENRE capture, if any.                *)
(***************************************************************************)

\* patterns[C.LOCALE]: what the title of a section of the locale starts with
LocaleHeading == <<"F">>

\* lines 141-145: the sections whose title, left-stripped, starts with the
\* heading of the locale
RECURSIVE find_sections(_)
find_sections(code) ==
    IF code.sections = <<>> THEN <<>>
    ELSE LET section == Head(code.sections)
             others  == find_sections([code EXCEPT !.sections = Tail(@)])
         IN  IF section.title # <<>> /\ At(LStrip(section.title), LocaleHeading, 1)
             THEN <<section>> \o others
             ELSE others

\* find_pronunciation(code): match.group(1) if match else ""
find_pronunciation(code) ==
    IF code.pronunciation = <<>> THEN <<>> ELSE code.pronunciation[1]

\* find_genre(code): match.group(1) if match else ""
find_genre(code) ==
    IF code.genre = <<>> THEN <<>> ELSE code.genre[1]

\* parse_word(word, code, force): every outcome of a call, exc being the
\* exception that leaves it, "" when it returns
parse_word(word, code, force) ==
    { IF defs = Raised
      THEN [exc |-> "IndexError", pronunciation |-> <<>>, genre |-> <<>>,
            definitions |-> <<>>]
      ELSE IF defs # <<>> \/ force
      THEN [exc |-> "", pronunciation |-> find_pronunciation(code),
            genre |-> find_genre(code), definitions |-> defs]
      ELSE [exc |-> "", pronunciation |-> <<>>, genre |-> <<>>,
            definitions |-> defs]
      : defs \in find_definitions(word, find_sections(code)) }

\* the code of an empty text
NoCode == [sections |-> <<>>, pronunciation |-> <<>>, genre |-> <<>>]

\* an xml element: its tag, its text (<<>> for None, <<t>> for t) and its
\* children
Element(tag, txt, kids) == [tag |-> tag, text |-> txt, kids |-> kids]

\* what xml_parse_element returns or raises
Parsed(exc, word, code) == [exc |-> exc, word |-> word, code |-> code]

\* lines 268-274: the text of the first child of revision tagged text, from
\* the sixth child on; <<>> when there is none
RECURSIVE TextFrom(_, _)
TextFrom(revision, i) ==
    IF i > Len(revision.kids) THEN <<>>
    ELSE IF revision.kids[i].tag = "text" THEN <<revision.kids[i].text>>
    ELSE TextFrom(revision, i + 1)

\* lines 268-277 for the revision found
ParseRevision(element, revision) ==
    LET info == TextFrom(revision, 6) IN
    IF info = <<>> THEN Parsed("", <<>>, NoCode)
    ELSE Parsed("",
                IF element.kids[1].text = <<>> THEN <<>> ELSE element.kids[1].text[1],
                IF info[1] = <<>> THEN NoCode ELSE info[1][1])

\* xml_parse_element(element)
xml_parse_element(element) ==
    IF Len(element.kids) < 4 THEN Parsed("IndexError", <<>>, NoCode)
    ELSE IF element.kids[4].tag = "restrictions"
    THEN IF Len(element.kids) < 5 THEN Parsed("IndexError", <<>>, NoCode)
         ELSE ParseRevision(element, element.kids[5])
    ELSE IF element.kids[4].kids = <<>> THEN Parsed("", <<>>, NoCode)
    ELSE ParseRevision(element, element.kids[4])

\* line 205: len(word) < 2 or ":" in word, without the test of ":"
Skipped_ShortOnly(word) == Len(word) < 2

\* line 205: len(word) < 2 or ":" in word
Skipped(word) == Len(word) < 2 \/ Contains(word, <<":">>)

\* line 214: words[word] = pronunciation, genre, definitions
Store(dict, word, entry) ==
    [w \in DOMAIN dict \cup {word} |-> IF w = word THEN entry ELSE dict[w]]

(***************************************************************************)
(* get.py: guess_snapshots, fetch_pages, decompress.  A snapshot is its    *)
(* date, a number; a file of C.SNAPSHOT is "none" (no such file), "empty", *)
(* "part" (the beginning of its contents) or "full".                       *)
(***************************************************************************)

\* pages-{date}.xml.bz2 and pages-{date}.xml
Bz2(date) == <<"bz2", date>>

Xml(date) == <<"xml", date>>

\* the list 1, ..., n
UpTo(n) == [i \in 1..n |-> i]

\* guess_snapshots(): WIKI_DUMP alone when it is set (env # 0), else the
\* sorted list the index page gives
guess_snapshots(run) ==
    IF run.env # 0 THEN <<run.env>> ELSE UpTo(run.listed)

\* fetch_pages(date) on the files d, the server answering net[date]: every
\* outcome, exc being the exception that leaves it, "" when it returns
fetch_pages(d, net, date) ==
    IF d[Bz2(date)] # "none" \/ d[Xml(date)] # "none"
    THEN { [exc |-> "", disk |-> d] }
    ELSE IF net[date] = "ok"
    THEN { [exc |-> "", disk |-> [d EXCEPT ![Bz2(date)] = "full"]] }
    ELSE IF net[date] = "HTTPError"
    THEN { [exc |-> "HTTPError", disk |-> [d EXCEPT ![Bz2(date)] = "empty"]] }
    ELSE { [exc |-> "ConnectionError", disk |-> [d EXCEPT ![Bz2(date)] = got]]
           : got \in {"empty", "part"} }

\* decompress(file) on the files d: the files it leaves
decompress(d, date) ==
    IF d[Xml(date)] # "none" THEN d
    ELSE [d EXCEPT ![Xml(date)] = d[Bz2(date)]]

\* line 302: snapshots[-2], taken from the wrong end
Fallback_Oldest(snapshots) == snapshots[1]

\* line 302: snapshots[-2]
Fallback(snapshots) == snapshots[Len(snapshots) - 1]

(***************************************************************************)
(* Inputs                                                                  *)
(***************************************************************************)

\* the word, used by the code in its warnings only
Word == <<"f", "o", "o">>

\* most parts of a template's contents
MaxParts == 3

\* the parts a template's contents is made of
PartPool == { <<>>, <<"w">>, <<"g">>, <<"m">>, <<"s">>, <<"u">>, <<"t">>,
              <<"o">>, <<"a">>, <<" ", "a">>, <<"w", " ">>, <<"a", "b">> }

\* "|".join(parts)
RECURSIVE JoinBar(_)
JoinBar(parts) ==
    IF Len(parts) = 1 THEN parts[1]
    ELSE parts[1] \o <<"|">> \o JoinBar(Tail(parts))

\* every contents of 1..MaxParts parts
Contents ==
    UNION { { JoinBar(ps) : ps \in [1..n -> PartPool] } : n \in 1..MaxParts }

(***************************************************************************)
(* transform called once on a template's contents                          *)
(***************************************************************************)
InitTransform ==
    /\ pc = "call"
    /\ input \in Contents
    /\ result = <<>>
    /\ IdleClean
    /\ IdleGet
    /\ IdleMain

CallTransform ==
    /\ pc = "call"
    /\ arg' = input
    /\ result' = transform(Word, input)
    /\ pc' = IF transform(Word, input) = IndexError THEN "raised" ELSE "returned"
    /\ UNCHANGED <<input, text, todo, round, prev>>
    /\ UNCHANGED <<getVars, mainVars>>

NextTransform == CallTransform

SpecTransform == InitTransform /\ [][NextTransform]_vars

(***************************************************************************)
(* clean called on a fragment, one loop iteration per step                 *)
(***************************************************************************)

\* most pieces of a fragment
MaxPieces == 4

\* the pieces a fragment is made of
CleanPieces == { <<"{", "{">>, <<"}", "}">>, <<"{">>, <<"|">>, <<"a">>,
                 <<"w">>, <<" ">> }

\* every concatenation of at most n pieces
RECURSIVE Concatenations(_, _)
Concatenations(pieces, n) ==
    IF n = 0 THEN { <<>> }
    ELSE LET shorter == Concatenations(pieces, n - 1) IN
         shorter \cup { p \o s : p \in pieces, s \in shorter }

\* the fragments of the docstring of clean and of the nesting example,
\* with one-letter names: {{a}}, {{a|{{b}}|c}}, {{a|{{b|{{c}}}}}}
Examples ==
    { <<"{", "{", "a", "}", "}">>,
      <<"{", "{", "a", "|", "{", "{", "b", "}", "}", "|", "c", "}", "}">>,
      <<"{", "{", "a", "|", "{", "{", "b", "|", "{", "{", "c", "}", "}",
        "}", "}", "}", "}">> }

InitCleanOn(fragments) ==
    /\ pc = "markup"
    /\ input \in fragments
    /\ text = input
    /\ todo = {}
    /\ arg = <<>>
    /\ result = <<>>
    /\ round = 1
    /\ prev = <<>>
    /\ IdleGet
    /\ IdleMain

InitClean == InitCleanOn(Concatenations(CleanPieces, MaxPieces) \cup Examples)

\* lines 171-226: the markup rewrites, then the set of innermost templates
CleanMarkup ==
    /\ pc = "markup"
    /\ text' = Markup(text)
    /\ todo' = Innermost(Markup(text))
    /\ pc' = IF Innermost(Markup(text)) = {} THEN "second" ELSE "first"
    /\ UNCHANGED <<input, arg, result, round, prev>>
    /\ UNCHANGED <<getVars, mainVars>>

\* lines 226-229: one iteration of the for loop, on any element of the set
CleanFirstPass ==
    /\ pc = "first"
    /\ \E tpl \in todo :
        /\ arg' = Inside(tpl)
        /\ IF FirstPassText(Word, text, tpl) = IndexError
           THEN /\ pc' = "raised"
                /\ result' = IndexError
                /\ UNCHANGED <<text, todo>>
           ELSE /\ text' = FirstPassText(Word, text, tpl)
                /\ todo' = todo \ {tpl}
                /\ pc' = IF todo \ {tpl} = {} THEN "second" ELSE "first"
                /\ UNCHANGED result
    /\ UNCHANGED <<input, round, prev>>
    /\ UNCHANGED <<getVars, mainVars>>

\* lines 232-249: one iteration of the while loop
CleanSecondPass ==
    /\ pc = "second"
    /\ HasTemplate(text)
    /\ arg' = Subtext(text)
    /\ IF SecondPassText(Word, text) = IndexError
       THEN /\ pc' = "raised"
            /\ result' = IndexError
            /\ UNCHANGED text
       ELSE /\ text' = SecondPassText(Word, text)
            /\ UNCHANGED <<pc, result>>
    /\ UNCHANGED <<input, todo, round, prev>>
    /\ UNCHANGED <<getVars, mainVars>>

\* lines 232, 252-255: the while loop ends, clean returns
CleanReturn ==
    /\ pc = "second"
    /\ ~HasTemplate(text)
    /\ result' = Spaces(text)
    /\ pc' = "done"
    /\ UNCHANGED <<input, text, todo, arg, round, prev>>
    /\ UNCHANGED <<getVars, mainVars>>

NextClean == CleanMarkup \/ CleanFirstPass \/ CleanSecondPass \/ CleanReturn

SpecClean == InitClean /\ [][NextClean]_vars

(***************************************************************************)
(* clean on fragments with several innermost templates                     *)
(***************************************************************************)

\* most pieces of such a fragment
MaxOrderPieces == 5

\* its pieces: braces and whole innermost templates
OrderPieces == { <<"{">>, <<"{", "{">>, <<"}", "}">>,
                 <<"{", "{", "}", "}">>,
                 <<"{", "{", " ", "}", "}">>,
                 <<"{", "{", "a", "}", "}">> }

InitOrder == InitCleanOn(Concatenations(OrderPieces, MaxOrderPieces))

SpecOrder == InitOrder /\ [][NextClean]_vars

(***************************************************************************)
(* clean called on a fragment, then on what it returned                    *)
(***************************************************************************)

\* most pieces of such a fragment
MaxIdemPieces == 4

\* its pieces: template and table delimiters, quotes, list markers, spaces
IdemPieces == { <<"{", "{">>, <<"}", "}">>, <<"{">>, <<"|">>, <<"}">>,
                <<"a">>, <<" ">>, <<" ", " ">>, <<".">>, <<"'", "'">>,
                <<"*">> }

InitIdem == InitCleanOn(Concatenations(IdemPieces, MaxIdemPieces))

\* clean(word, clean(word, fragment)): the second call
CleanAgain ==
    /\ pc = "done"
    /\ round = 1
    /\ round' = 2
    /\ prev' = result
    /\ text' = result
    /\ pc' = "markup"
    /\ todo' = {}
    /\ arg' = <<>>
    /\ result' = <<>>
    /\ UNCHANGED input
    /\ UNCHANGED <<getVars, mainVars>>

NextIdem == NextClean \/ CleanAgain

SpecIdem == InitIdem /\ [][NextIdem]_vars

(***************************************************************************)
(* find_definitions called on the matched sections of a page, one list     *)
(* item per step.  A section is what wikitextparser gives for it: its      *)
(* title and its lists, each list being its items.                         *)
(***************************************************************************)

\* most list items of a page, the sections taken together
MaxItems == 3

\* most sections of a page
MaxSections == 2

\* list items: " a", " ", "{{a}} b", "{{a}} …"
RawItems ==
    { <<" ", "a">>, <<" ">>,
      <<"{", "{", "a", "}", "}", " ", "b">>,
      <<"{", "{", "a", "}", "}", " ", "U2026">> }

\* every sequence of at most n elements of S
RECURSIVE SeqsUpTo(_, _)
SeqsUpTo(S, n) ==
    IF n = 0 THEN { <<>> }
    ELSE LET shorter == SeqsUpTo(S, n - 1) IN
         shorter \cup { <<x>> \o q : x \in S, q \in { r \in shorter : Len(r) = n - 1 } }

\* a section titled title with these lists
Section(title, lists) == [title |-> title, lists |-> lists]

\* the sections whose first list is items: without a list when there is no
\* item; a single item may be followed by a second list
SectionsOf(items) ==
    IF items = <<>> THEN { Section(<<"F">>, <<>>) }
    ELSE { Section(<<"F">>, <<items>>) }
         \cup IF Len(items) = 1
              THEN { Section(<<"F">>, <<items, <<<<"b">>>>>>) }
              ELSE {}

\* every way of laying items out over at most n sections
RECURSIVE Layouts(_, _)
Layouts(items, n) ==
    (IF items = <<>> THEN { <<>> } ELSE {})
    \cup IF n = 0 THEN {}
         ELSE UNION { { <<section>> \o rest :
                          section \in SectionsOf(SubSeq(items, 1, k)),
                          rest \in Layouts(SubSeq(items, k + 1, Len(items)), n - 1) }
                      : k \in 0..Len(items) }

InitDefinitions ==
    /\ pc = "find"
    /\ input \in UNION { Layouts(items, MaxSections) : items \in SeqsUpTo(RawItems, MaxItems) }
    /\ queue = ChainItems(input)
    /\ definitions = <<>>
    /\ words = <<>>
    /\ result = <<>>
    /\ IdleClean
    /\ IdleMain

\* lines 95-99, 120-123: the next item is cleaned, and yielded or filtered out
FindSectionDefinition ==
    /\ pc = "find"
    /\ queue # <<>>
    /\ \E d \in clean(Word, Strip(Head(queue))) :
        IF d = IndexError
        THEN /\ pc' = "raised"
             /\ result' = Raised
             /\ UNCHANGED <<queue, definitions>>
        ELSE /\ definitions' = Yield(definitions, d)
             /\ queue' = Tail(queue)
             /\ UNCHANGED <<pc, result>>
    /\ UNCHANGED <<input, words, cleanVars, mainVars>>

\* lines 100-105: the chain is exhausted, find_definitions returns
FindDefinitionsReturn ==
    /\ pc = "find"
    /\ queue = <<>>
    /\ result' = IF definitions = <<>> THEN <<>>
                 ELSE RemoveDuplicates(definitions, {})
    /\ pc' = "done"
    /\ UNCHANGED <<input, queue, definitions, words, cleanVars, mainVars>>

NextDefinitions == FindSectionDefinition \/ FindDefinitionsReturn

SpecDefinitions == InitDefinitions /\ [][NextDefinitions]_vars

(***************************************************************************)
(* process called on a dump, one page element per step                     *)
(***************************************************************************)

\* most pages of a dump
MaxPages == 3

\* the code of a page with one section titled title holding one list
CodeOf(title, items) ==
    [sections |-> <<Section(title, <<items>>)>>,
     pronunciation |-> <<<<"p">>>>, genre |-> <<<<"m">>>>]

\* a section of the locale with the definition a, with the definition b,
\* with the near-empty {{a}}, with {{|a}} (on which clean raises); a section
\* of another locale; a section of the locale with an indented title
CodePool ==
    [ defined  |-> CodeOf(<<"F">>, <<<<"a">>>>),
      other    |-> CodeOf(<<"F">>, <<<<"b">>, <<"a">>, <<"b">>>>),
      nearly   |-> CodeOf(<<"F">>, <<<<"{", "{", "a", "}", "}">>>>),
      raising  |-> CodeOf(<<"F">>, <<<<"a">>, <<"{", "{", "|", "a", "}", "}">>>>),
      foreign  |-> CodeOf(<<"E">>, <<<<"a">>>>),
      indented |-> CodeOf(<<" ", "F", "a">>, <<<<"a">>>>) ]

Leaf(tag) == Element(tag, <<>>, <<>>)

\* <revision> with its <text> as sixth child: txt is <<>> or <<code>>
Revision(txt) ==
    Element("revision", <<>>,
            <<Leaf("id"), Leaf("parentid"), Leaf("timestamp"),
              Leaf("contributor"), Leaf("comment"), Element("text", txt, <<>>)>>)

\* <revision> with its <text> as fifth child, before where line 268 looks
EarlyText ==
    Element("revision", <<>>,
            <<Leaf("id"), Leaf("timestamp"), Leaf("contributor"),
              Leaf("comment"),
              Element("text", <<CodePool.defined>>, <<>>)>>)

\* <page>: title, ns, id, then rest
Page(title, rest) ==
    Element("page", <<>>,
            <<Element("title", title, <<>>), Leaf("ns"), Leaf("id")>> \o rest)

\* the pages of a dump: plain pages, a page without title text, a page
\* without text, a restricted page, a redirect, a page whose text comes
\* early, a page without revision, a restricted page without revision
PagePool ==
    { Page(<<t>>, <<Revision(<<c>>)>>) :
        t \in { <<"a", "b">>, <<"c", "d">>, <<"a">>, <<"a", ":">> },
        c \in { CodePool.defined, CodePool.nearly } }
    \cup { Page(<<<<"a", "b">>>>, <<Revision(<<c>>)>>) :
        c \in { CodePool.other, CodePool.raising, CodePool.foreign,
                CodePool.indented } }
    \cup { Page(<<>>, <<Revision(<<CodePool.defined>>)>>),
           Page(<<<<"a", "b">>>>, <<Revision(<<>>)>>),
           Page(<<<<"c", "d">>>>,
                <<Leaf("restrictions"), Revision(<<CodePool.defined>>)>>),
           Page(<<<<"c", "d">>>>,
                <<Leaf("redirect"), Revision(<<CodePool.defined>>)>>),
           Page(<<<<"c", "d">>>>, <<EarlyText>>),
           Page(<<<<"c", "d">>>>, <<>>),
           Page(<<<<"c", "d">>>>, <<Leaf("restrictions")>>) }

InitProcess ==
    /\ pc = "process"
    /\ input \in SeqsUpTo(PagePool, MaxPages)
    /\ queue = input
    /\ definitions = <<>>
    /\ words = <<>>
    /\ result = <<>>
    /\ IdleClean
    /\ IdleMain

\* lines 203-214: one iteration of the for loop; an exception of
\* xml_parse_element leaves process
ProcessPage ==
    /\ pc = "process"
    /\ queue # <<>>
    /\ LET parsed == xml_parse_element(Head(queue)) IN
        IF parsed.exc # ""
        THEN /\ pc' = "raised"
             /\ UNCHANGED <<queue, words>>
        ELSE /\ queue' = Tail(queue)
             /\ pc' = pc
             /\ IF Skipped(parsed.word) THEN UNCHANGED words
                ELSE \E parse \in parse_word(parsed.word, parsed.code, FALSE) :
                      words' = IF parse.exc = "" /\ parse.definitions # <<>>
                               THEN Store(words, parsed.word,
                                          <<parse.pronunciation, parse.genre,
                                            parse.definitions>>)
                               ELSE words
    /\ UNCHANGED <<input, result, definitions, cleanVars, mainVars>>

\* line 216: the dump is exhausted, process returns words
ProcessReturn ==
    /\ pc = "process"
    /\ queue = <<>>
    /\ result' = words
    /\ pc' = "done"
    /\ UNCHANGED <<input, queue, definitions, words, cleanVars, mainVars>>

NextProcess == ProcessPage \/ ProcessReturn

SpecProcess == InitProcess /\ [][NextProcess]_vars

(***************************************************************************)
(* main() run once, without a word                                         *)
(***************************************************************************)

\* most snapshots the index page lists
MaxSnapshots == 3

Dates == 1..MaxSnapshots

Files == { Bz2(date) : date \in Dates } \cup { Xml(date) : date \in Dates }

\* a run: WIKI_DUMP (0 when unset), whether the index page can be fetched,
\* how many snapshots it lists, and what the server answers for each dump
Runs ==
    { [env |-> env, listing |-> "ok", listed |-> 0, net |-> net] :
        env \in Dates, net \in [Dates -> {"ok", "HTTPError", "ConnectionError"}] }
    \cup
    { [env |-> 0, listing |-> listing, listed |-> listed, net |-> net] :
        listing \in {"ok", "HTTPError"}, listed \in 0..MaxSnapshots,
        net \in [Dates -> {"ok", "HTTPError", "ConnectionError"}] }

\* C.SNAPSHOT before the run: empty, or one file an earlier run left whole
Disks ==
    { [f \in Files |-> "none"] }
    \cup { [f \in Files |-> IF f = g THEN "full" ELSE "none"] : g \in Files }

\* the snapshots of the run
Snapshots == guess_snapshots(input)

InitMain ==
    /\ pc = "main"
    /\ input \in Runs
    /\ result = <<>>
    /\ snapshot = 0
    /\ file = <<>>
    /\ disk \in Disks
    /\ fetches = <<>>
    /\ saved = <<>>
    /\ IdleClean
    /\ IdleGet

\* lines 292-293: guess_snapshots() and snapshots[-1]
MainGuess ==
    /\ pc = "main"
    /\ IF (input.env = 0 /\ input.listing # "ok") \/ Snapshots = <<>>
       THEN pc' = "aborted" /\ UNCHANGED snapshot
       ELSE pc' = "fetch" /\ snapshot' = Snapshots[Len(Snapshots)]
    /\ UNCHANGED <<input, result, file, disk, fetches, saved, cleanVars, getVars>>

\* lines 296-298: fetch_pages(snapshot) in the try
MainFetch ==
    /\ pc = "fetch"
    /\ \E fetched \in fetch_pages(disk, input.net, snapshot) :
        /\ disk' = fetched.disk
        /\ fetches' = Append(fetches, [date |-> snapshot, exc |-> fetched.exc])
        /\ pc' = IF fetched.exc = "" THEN "decompress"
                 ELSE IF fetched.exc = "HTTPError" THEN "fallback"
                 ELSE "aborted"
        /\ file' = IF fetched.exc = "" THEN Bz2(snapshot) ELSE file
    /\ UNCHANGED <<input, result, snapshot, saved, cleanVars, getVars>>

\* lines 298-303: the except clause
MainFallback ==
    /\ pc = "fallback"
    /\ IF Len(Snapshots) < 2
       THEN pc' = "aborted" /\ UNCHANGED <<snapshot, file, disk, fetches>>
       ELSE /\ snapshot' = Fallback(Snapshots)
            /\ \E fetched \in fetch_pages(disk, input.net, Fallback(Snapshots)) :
                /\ disk' = fetched.disk
                /\ fetches' = Append(fetches, [date |-> Fallback(Snapshots),
                                               exc |-> fetched.exc])
                /\ pc' = IF fetched.exc = "" THEN "decompress" ELSE "aborted"
                /\ file' = IF fetched.exc = "" THEN Bz2(Fallback(Snapshots))
                           ELSE file
    /\ UNCHANGED <<input, result, saved, cleanVars, getVars>>

\* line 305: file = decompress(file)
MainDecompress ==
    /\ pc = "decompress"
    /\ disk' = decompress(disk, file[2])
    /\ file' = Xml(file[2])
    /\ pc' = "process"
    /\ UNCHANGED <<input, result, snapshot, fetches, saved, cleanVars, getVars>>

\* lines 308-310: process(file) raises on a file that is not whole xml, and
\* on an element it cannot read; an empty dictionary raises ValueError
MainProcess ==
    /\ pc = "process"
    /\ IF disk[file] # "full"
       THEN pc' = "aborted" /\ UNCHANGED words
       ELSE \E outcome \in {"words", "empty", "raised"} :
            /\ pc' = IF outcome = "words" THEN "save" ELSE "aborted"
            /\ words' = IF outcome = "words"
                        THEN Store(<<>>, <<"a", "b">>, <<<<>>, <<>>, <<<<"a">>>>>>)
                        ELSE words
    /\ UNCHANGED <<input, result, queue, definitions, mainVars, cleanVars>>

\* line 313: save(snapshot, words)
MainSave ==
    /\ pc = "save"
    /\ saved' = <<snapshot>>
    /\ pc' = "done"
    /\ UNCHANGED <<input, result, snapshot, file, disk, fetches, cleanVars, getVars>>

NextMain ==
    \/ MainGuess
    \/ MainFetch
    \/ MainFallback
    \/ MainDecompress
    \/ MainProcess
    \/ MainSave

SpecMain == InitMain /\ [][NextMain]_vars

(***************************************************************************)
(* main() run again and again over the same C.SNAPSHOT                     *)
(***************************************************************************)

\* main has ended, by a return or by an exception
Finished == pc \in {"done", "aborted"}

\* the runs of a scheduled job: WIKI_DUMP unset, the index page listing all
\* the snapshots or all but the newest, the older dumps being served, and a
\* download failing, when it does, with an HTTPError
RunPool ==
    { run \in Runs :
        /\ run.env = 0
        /\ \A date \in Dates : run.net[date] # "ConnectionError"
        /\ run.listing = "ok"
        /\ run.listed >= 2
        /\ run.listed >= MaxSnapshots - 1
        /\ \A date \in Dates :
            (date < run.listed - 1 \/ date > run.listed) => run.net[date] = "ok" }

InitRuns ==
    /\ pc = "main"
    /\ input \in RunPool
    /\ result = <<>>
    /\ snapshot = 0
    /\ file = <<>>
    /\ disk = [f \in Files |-> "none"]
    /\ fetches = <<>>
    /\ saved = <<>>
    /\ IdleClean
    /\ IdleGet

\* lines 46-52: the process is stopped while decompress writes its output,
\* which stays as far as it was written
DecompressInterrupted ==
    /\ pc = "decompress"
    /\ disk[Xml(file[2])] = "none"
    /\ \E written \in {"empty", "part"} :
        disk' = [disk EXCEPT ![Xml(file[2])] = written]
    /\ pc' = "aborted"
    /\ UNCHANGED <<input, result, snapshot, file, fetches, saved, cleanVars, getVars>>

\* main is called anew, later, on the files the runs before it left
MainAgain ==
    /\ Finished
    /\ pc' = "main"
    /\ input' \in RunPool
    /\ snapshot' = 0
    /\ file' = <<>>
    /\ fetches' = <<>>
    /\ saved' = <<>>
    /\ words' = <<>>
    /\ UNCHANGED <<result, disk, queue, definitions, cleanVars>>

NextRuns ==
    \/ NextMain
    \/ DecompressInterrupted
    \/ MainAgain

SpecRuns == InitRuns /\ [][NextRuns]_vars


\* C1: for every contents, transform returns what the first matching rule of
\* the list ignored, w, multi, italic, other, 2 parts, more than 2 parts,
\* bare name gives, "<i>(Capitalized name)</i>" being built from the name with
\* its first letter capitalized.
CapitalizedName(name) ==
    IF name = <<>> THEN <<>> ELSE <<Upper(name[1])>> \o Tail(name)

ItalicParenthetical(label) ==
    <<"<", "i", ">", "(">> \o label \o <<")", "<", "/", "i", ">">>

FirstMatchingRule(template) ==
    LET parts == StripAll(Split(template, "|"))
        name  == parts[1]
    IN  IF name \in templates_ignored THEN <<>>
        ELSE IF name = <<"w">> THEN parts[Len(parts)]
        ELSE IF name \in DOMAIN templates_multi THEN EvalMulti(name, parts)
        ELSE IF name \in DOMAIN templates_italic
             THEN ItalicParenthetical(templates_italic[name])
        ELSE IF name \in DOMAIN templates_other THEN templates_other[name]
        ELSE IF Len(parts) = 2 THEN ItalicParenthetical(CapitalizedName(name))
        ELSE IF Len(parts) > 2 THEN <<>>
        ELSE IF name = <<>> THEN <<>>
        ELSE ItalicParenthetical(CapitalizedName(name))

C1_FirstMatchingRule ==
    pc \in {"returned", "raised"} => result = FirstMatchingRule(input)

\* C2: transform never raises, whatever the contents: a template whose name
\* is in no table (an empty name with arguments included) gives an italic
\* parenthetical or the empty string.
C2_NeverRaises == pc # "raised"

\* C3: on every fragment (unclosed "{{", stray "}}", "{{" in a name included)
\* the second loop of clean ends, every iteration leaving fewer "{" in text
\* than it found, and a string clean returns has no "{{".
RECURSIVE Count(_, _)
Count(s, c) ==
    IF s = <<>> THEN 0
    ELSE (IF s[1] = c THEN 1 ELSE 0) + Count(Tail(s), c)

C3_LoopEndsWithoutTemplate ==
    /\ [](pc = "done" => ~Contains(result, <<"{", "{">>))
    /\ [][(pc = "second" /\ pc' = "second")
            => Count(text', "{") < Count(text, "{")]_vars

\* clean has returned on a fragment with an unclosed "{{" after the second
\* loop called transform
C3_Witness ==
    /\ pc = "done"
    /\ Contains(input, <<"{", "{">>)
    /\ ~Contains(input, <<"}", "}">>)
    /\ Innermost(Markup(input)) = {}
    /\ arg # <<>>

\* C4: clean returns the same string whatever order the set of innermost
\* matches is iterated in: what a run returns (or raises) is the only outcome
\* of clean on that fragment.
C4_OrderIndependent ==
    pc \in {"done", "raised"} => clean(Word, input) = {result}

\* the delimiters the rewrites of clean look for
NoMarkupLeft(s) ==
    /\ ~Contains(s, <<"{", "{">>)
    /\ ~Contains(s, <<"}", "}">>)
    /\ ~Contains(s, <<"{", "|">>)
    /\ ~Contains(s, <<"|", "}">>)
    /\ ~Contains(s, <<"'", "'">>)
    /\ ~At(s, <<"*">>, 1)

\* C5: when what clean returned has no template or markup token left, clean
\* applied to it returns it unchanged.
C5_Idempotent ==
    (round = 2 /\ NoMarkupLeft(prev)) =>
        /\ pc # "raised"
        /\ pc = "done" => result = prev

\* the second call has returned, the first one having rewritten the fragment
\* into a non-empty string without tokens
C5_Witness ==
    /\ round = 2
    /\ pc = "done"
    /\ NoMarkupLeft(prev)
    /\ prev # <<>>
    /\ prev # input

\* C10: every contents clean passes to transform is free of "{{", at any
\* depth of nesting.
C10_InnermostFirst == ~Contains(arg, <<"{", "{">>)

\* the first position of d in the list ds
RECURSIVE FirstIndex(_, _)
FirstIndex(ds, d) ==
    IF ds = <<>> THEN 1
    ELSE IF Head(ds) = d THEN 1 ELSE 1 + FirstIndex(Tail(ds), d)

\* the elements of a list
Range(ds) == { ds[i] : i \in DOMAIN ds }

\* C6: a list find_definitions returns has no empty or near-empty item and no
\* two equal items, and holds the surviving cleaned items in the order of
\* their first occurrence across the sections.
C6_Definitions ==
    pc = "done" =>
        /\ \A i \in DOMAIN result :
            /\ result[i] # <<>>
            /\ ~PatternMatch(result[i])
            /\ \E k \in DOMAIN ChainItems(input) :
                result[i] \in clean(Word, Strip(ChainItems(input)[k]))
        /\ \A i, j \in DOMAIN result : i # j => result[i] # result[j]
        /\ Range(result) = Range(definitions)
        /\ \A i, j \in DOMAIN result :
            i < j => FirstIndex(definitions, result[i])
                     < FirstIndex(definitions, result[j])

\* find_definitions has returned two definitions out of three that the
\* lists of two sections gave, one of them twice
C6_Witness ==
    /\ pc = "done"
    /\ Len(input) = 2
    /\ Len(definitions) = 3
    /\ Len(result) = 2

\* the title and code the dump source gives for a page: ("", "") for a page
\* without revision text
Surfaced(element) == xml_parse_element(element)

\* C7: the dictionary process returns has an entry for a title iff a page
\* with that title has at least 2 characters in its title, no ":" in it, and
\* got at least one definition from parse_word; so every key has 2
\* characters or more, no ":", and a non-empty list of definitions.
C7_Entries ==
    pc = "done" =>
        /\ DOMAIN result =
            { Surfaced(input[k]).word : k \in
                { i \in DOMAIN input :
                    /\ Len(Surfaced(input[i]).word) >= 2
                    /\ \A j \in DOMAIN Surfaced(input[i]).word :
                         Surfaced(input[i]).word[j] # ":"
                    /\ \E parse \in parse_word(Surfaced(input[i]).word,
                                               Surfaced(input[i]).code, FALSE) :
                         parse.exc = "" /\ parse.definitions # <<>> } }
        /\ \A word \in DOMAIN result :
            /\ Len(word) >= 2
            /\ \A j \in DOMAIN word : word[j] # ":"
            /\ result[word][3] # <<>>

\* process has returned an entry after pages it gave no entry for: a title
\* with ":", and a page surfaced as ("", "")
C7_Witness ==
    /\ pc = "done"
    /\ Cardinality(DOMAIN result) = 1
    /\ Len(input) = 3
    /\ \E i \in DOMAIN input : Contains(Surfaced(input[i]).word, <<":">>)
    /\ \E i \in DOMAIN input :
        Surfaced(input[i]).word = <<>> /\ Len(input[i].kids) >= 4

\* C8: no failure on one page aborts the batch: process never ends by an
\* exception, whatever step raised for a page.
C8_BatchNeverAborts == pc # "raised"

\* the first call of fetch_pages raised one of errors
FirstFetchFailed(errors) == fetches # <<>> /\ fetches[1].exc \in errors

\* when the fetch of the newest snapshot fails with one of errors: it is
\* retried exactly once, on the snapshot just before the newest; what save
\* persists is the snapshot processed; when the fallback fails too, or there
\* is no older snapshot, main aborts without a call of save
RetriesOnce(errors) ==
    /\ Len(fetches) <= 2
    /\ (Finished /\ FirstFetchFailed(errors) /\ Len(Snapshots) >= 2) =>
        /\ Len(fetches) = 2
        /\ fetches[2].date = Snapshots[Len(Snapshots) - 1]
    /\ saved # <<>> =>
        /\ file = Xml(saved[1])
        /\ fetches[Len(fetches)] = [date |-> saved[1], exc |-> ""]
    /\ (/\ Finished
        /\ FirstFetchFailed(errors)
        /\ \/ Len(Snapshots) < 2
           \/ Len(fetches) = 2 /\ fetches[2].exc # "") =>
        /\ pc = "aborted"
        /\ saved = <<>>

\* C9 as stated: the retry follows any network or transport error of the
\* first fetch.
C9_RetryOnNetworkError == RetriesOnce({"HTTPError", "ConnectionError"})

\* C9 as amended: the retry follows an HTTPError of the first fetch; after
\* any other exception of the first fetch main aborts at once.
C9_RetryOnHTTPError ==
    /\ RetriesOnce({"HTTPError"})
    /\ (Finished /\ FirstFetchFailed({"ConnectionError"})) =>
        /\ Len(fetches) = 1
        /\ pc = "aborted"
        /\ saved = <<>>

\* main has saved the snapshot before the newest of three, after an
\* HTTPError on the newest
C9_Witness ==
    /\ pc = "done"
    /\ Len(Snapshots) = 3
    /\ Len(fetches) = 2
    /\ fetches[1] = [date |-> 3, exc |-> "HTTPError"]
    /\ saved = <<2>>

\* C11: across runs, a file that fetch_pages returns without downloading, or
\* that decompress returns without decompressing, is what a download or a
\* decompression that completed has written: the compressed dump main goes
\* on with is whole (or its xml is), and the xml handed to process is whole.
C11_CachedFilesAreWhole ==
    /\ pc = "decompress" =>
        \/ disk[Bz2(file[2])] = "full"
        \/ disk[Xml(file[2])] = "full"
    /\ pc = "process" => disk[file] = "full"

====
